---- MODULE Spec2Model ----
(***************************************************************************)
(* KeePass HTTP client for Raycast: the association handshake, the         *)
(* shared-key store, and the search command that drives them from the      *)
(* search bar (debounce, association gate, get-logins dispatch).           *)
(*                                                                         *)
(* Strings are sequences of one-character strings; JavaScript's null and   *)
(* undefined are the one value NULL, which is no string of the model.      *)
(* Every action is one run of JavaScript between two awaits: a storage or  *)
(* network promise settles and the continuation runs to its next await.    *)
(***************************************************************************)
EXTENDS Integers, Sequences, FiniteSets, TLC

\* ------------------------------------------------------------------ bounds
MaxRetrievals == 2      \* getLogins calls in progress at one time
TickMs == 125           \* granularity of the clock

\* --------------------------------------------------------------- constants
SEARCH_DEBOUNCE_MS == 250

\* ----------------------------------------------------------------- strings
NULL == <<"null">>
SP == " "

IsString(v) == v # NULL

RECURSIVE trimStart(_)
trimStart(s) ==
    IF s # <<>> /\ Head(s) = SP THEN trimStart(Tail(s)) ELSE s

RECURSIVE trimEnd(_)
trimEnd(s) ==
    IF s # <<>> /\ s[Len(s)] = SP THEN trimEnd(SubSeq(s, 1, Len(s) - 1)) ELSE s

\* String.prototype.trim
trim(s) == trimEnd(trimStart(s))

\* JavaScript truthiness of a string | null | undefined
Truthy(v) == v # NULL /\ v # <<>>

\* a ?? b
Nullish(a, b) == IF a # NULL THEN a ELSE b

\* A secret in the sense of the store: a string with a non-blank character.
Usable(v) == v # NULL /\ \E i \in 1..Len(v) : v[i] # SP

\* ------------------------------------------------------ the shared-key store
\* getSharedKey without the trim: a blank value passes for a key
getSharedKeyNoTrim(stored) ==
    IF IsString(stored) /\ Truthy(stored) THEN stored ELSE NULL

\* getSharedKey giving the trimmed value
getSharedKeyTrimmed(stored) ==
    IF IsString(stored) /\ Truthy(trim(stored)) THEN trim(stored) ELSE NULL

\* getSharedKey's test on the value LocalStorage.getItem returned
getSharedKey(stored) ==
    IF IsString(stored) /\ Truthy(trim(stored)) THEN stored ELSE NULL

hasSharedKey(stored) == getSharedKey(stored) # NULL

\* requireSharedKey handing on whatever LocalStorage holds
requireSharedKeyUnchecked(stored) == stored

\* requireSharedKey: the key, or NULL for KeepassAssociationError("missing")
requireSharedKey(stored) ==
    LET existing == getSharedKey(stored)
    IN  IF Truthy(existing) THEN existing ELSE NULL

\* setSharedKey that loses the write
setSharedKeyNoWrite(stored, key) == stored

\* the stored value once setSharedKey(key) has resolved
setSharedKey(stored, key) == key

\* the stored value once clearSharedKey() has resolved: getItem gives nothing
clearSharedKey(stored) == NULL

\* ------------------------------------------------------ the entry normalizer
\* KeepassHttpEntry: every alias the server may use, NULL when not present.
NoStringFields ==
    [present |-> FALSE, UserName |-> NULL, username |-> NULL, Password |-> NULL]

BlankEntry ==
    [uuid |-> NULL, UUID |-> NULL, Uuid |-> NULL,
     title |-> NULL, Title |-> NULL, Name |-> NULL,
     username |-> NULL, Username |-> NULL, Login |-> NULL,
     password |-> NULL, Password |-> NULL,
     url |-> NULL, Url |-> NULL, URL |-> NULL,
     notes |-> NULL, Notes |-> NULL,
     group |-> NULL, Group |-> NULL, GroupPath |-> NULL,
     StringFields |-> NoStringFields]

\* the literal "Untitled"
UNTITLED == <<"U", "n", "t", "i", "t", "l", "e", "d">>

\* entry.StringFields ?? {}
stringFieldsOf(entry) ==
    IF entry.StringFields.present THEN entry.StringFields ELSE NoStringFields

\* a || b
Falsy(a, b) == IF Truthy(a) THEN a ELSE b

\* mapEntry written with || where the code has ??
mapEntryFalsy(entry) ==
    LET stringFields == stringFieldsOf(entry)
    IN  [uuid |-> Falsy(entry.uuid, Falsy(entry.UUID, entry.Uuid)),
         title |-> Falsy(entry.title,
                     Falsy(entry.Title, Falsy(entry.Name, UNTITLED))),
         username |-> Falsy(entry.username,
                        Falsy(entry.Username,
                          Falsy(entry.Login,
                            Falsy(stringFields.UserName, stringFields.username)))),
         password |-> Falsy(entry.password,
                        Falsy(entry.Password, stringFields.Password)),
         url |-> Falsy(entry.url, Falsy(entry.Url, entry.URL)),
         notes |-> Falsy(entry.notes, entry.Notes),
         group |-> Falsy(entry.group, Falsy(entry.Group, entry.GroupPath))]

mapEntry(entry) ==
    LET stringFields == stringFieldsOf(entry)
    IN  [uuid |-> Nullish(entry.uuid, Nullish(entry.UUID, entry.Uuid)),
         title |-> Nullish(entry.title,
                     Nullish(entry.Title, Nullish(entry.Name, UNTITLED))),
         username |-> Nullish(entry.username,
                        Nullish(entry.Username,
                          Nullish(entry.Login,
                            Nullish(stringFields.UserName, stringFields.username)))),
         password |-> Nullish(entry.password,
                        Nullish(entry.Password, stringFields.Password)),
         url |-> Nullish(entry.url, Nullish(entry.Url, entry.URL)),
         notes |-> Nullish(entry.notes, entry.Notes),
         group |-> Nullish(entry.group, Nullish(entry.Group, entry.GroupPath))]

RECURSIVE mapEntries(_)
\* entries.map(mapEntry)
mapEntries(raws) ==
    IF raws = <<>> THEN <<>>
    ELSE <<mapEntry(Head(raws))>> \o mapEntries(Tail(raws))

\* Two raw entries the modelled server holds.
GmailEntry ==
    [BlankEntry EXCEPT !.Title = <<"G">>, !.Login = <<"m">>,
        !.StringFields = [NoStringFields EXCEPT !.present = TRUE,
                                                !.Password = <<"p">>]]

BankEntry ==
    [BlankEntry EXCEPT !.uuid = <<"1">>, !.Name = <<"B">>, !.title = <<>>]

\* ------------------------------------------------------------- the server
\* What fetch and response.json() can produce for one request: a decoded
\* body, a non-success status, or a body that does not decode.
KeyVals == {NULL, <<>>, <<SP>>, <<"a">>}

AssociateReplies ==
    [status : {"ok"}, Key : KeyVals, key : KeyVals]
        \cup [status : {"http", "decode"}, Key : {NULL}, key : {NULL}]

TestReplies ==
    [status : {"ok"}, Success : {"absent", "true", "false"}]
        \cup [status : {"http", "decode"}, Success : {"absent"}]

NoList == [present |-> FALSE, items |-> <<>>]
List(items) == [present |-> TRUE, items |-> items]

GetLoginsReplies ==
    { [status |-> "ok", Success |-> "absent",
       entries |-> List(<<BankEntry, GmailEntry>>), Entries |-> List(<<>>)],
      [status |-> "ok", Success |-> "true",
       entries |-> NoList, Entries |-> List(<<BankEntry, GmailEntry>>)],
      [status |-> "ok", Success |-> "false",
       entries |-> NoList, Entries |-> NoList],
      [status |-> "http", Success |-> "absent",
       entries |-> NoList, Entries |-> NoList],
      [status |-> "decode", Success |-> "absent",
       entries |-> NoList, Entries |-> NoList] }

\* sendRequest without `if (!response.ok) throw`
sendRequestThrowsOnDecodeOnly(reply) == reply.status = "decode"

\* sendRequest: throws unless response.ok and the body decodes
sendRequestThrows(reply) == reply.status # "ok"

\* response.Key ?? response.key
associateKey(reply) == Nullish(reply.Key, reply.key)

\* associate without `if (!key) throw`
associateThrowsOnTransportOnly(reply) == sendRequestThrows(reply)

\* associate's test `if (!key) throw`
associateThrows(reply) ==
    sendRequestThrows(reply) \/ ~Truthy(associateKey(reply))

\* testAssociate's test `response.Success === false`
testReportsInvalid(reply) == reply.Success = "false"

\* response.entries ?? response.Entries ?? []
replyEntries(reply) ==
    IF reply.entries.present THEN reply.entries.items
    ELSE IF reply.Entries.present THEN reply.Entries.items
    ELSE <<>>

\* getLogins sending the query as typed
getLoginsPayloadUntrimmed(key, query) ==
    [RequestType |-> "get-logins", Key |-> key,
     Search |-> IF Truthy(trim(query)) THEN query ELSE NULL]

\* getLogins' payload: Search only for a query that is not blank
getLoginsPayload(key, query) ==
    [RequestType |-> "get-logins", Key |-> key,
     Search |-> IF Truthy(trim(query)) THEN trim(query) ELSE NULL]

testAssociatePayload(key) == [RequestType |-> "test-associate", Key |-> key]

associatePayload == [RequestType |-> "associate"]

\* --------------------------------------------------------------- the state
VARIABLES
    store,            \* LocalStorage value under the client's storageKey
    searchText,       \* useState: the search bar's text
    entries,          \* useState: the emitted result list
    isLoading,        \* useState
    needsAssociation, \* useState: "null" | "true" | "false"
    isAssociating,    \* useState
    debounceRef,      \* useRef: id of the last timer set (0: none)
    timers,           \* the runtime's pending timeouts, each with its closure
    retrievals,       \* the getLogins calls in progress, in dispatch order
    newest,           \* the call started last: "none" | "pending" | "ok" | "failed"
    pcCheck,          \* checkAssociation: "reading" | "done"
    pcTest,           \* runTest: "reading" | "sent" | "clearing" | "done"
    testResult,       \* testAssociate: "pending" | "ok" | "missing" | "invalid" | "error"
    testBlank,        \* testAssociate found no usable key in the store
    testSent,         \* requests the testAssociate call handed to fetch
    testReq,          \* the test-associate request in flight
    pcAssoc,          \* requestAssociation: "idle" | "sent" | "storing" | "toast"
    assocReq,         \* the associate request in flight
    assocKey,         \* associate: `key`, response.Key ?? response.key
    assocResult,      \* the last associate call: "none" | "pending" | "ok" | "error"
    sinceUpdate,      \* time since the last change of searchText, capped
    inBurst,          \* the last change came within the quiet period of the one before
    dispatchedSinceUpdate, \* getLogins calls since the last change of searchText
    confirmed,        \* testAssociate or associate succeeded on the stored key
    everKey,          \* a usable key has been in the store
    storeBefore,      \* the store when the last associate call started
    assocInFlight,    \* associate requests of requestAssociation calls
                      \* that await their response
    lastDone,         \* the getLogins call that completed last: whether it
                      \* failed at some stage, whether the failure toast was shown
    mounted,          \* the Command is on screen: its effects are not cleaned up
    localStorage,     \* LocalStorage: storage key -> value, for several clients
    baseUrls,         \* the baseUrl preference of each of those clients
    got,              \* what the last getSharedKey / hasSharedKey call read and gave
    rawEntry,         \* a KeepassHttpEntry handed to mapEntry
    canonical         \* what mapEntry and mapEntryForDisplay made of it

\* the command with its one client
commandVars ==
    <<store, searchText, entries, isLoading, needsAssociation, isAssociating,
      debounceRef, timers, retrievals, newest, pcCheck, pcTest, testResult,
      testBlank, testSent, testReq, pcAssoc, assocReq, assocKey, assocResult,
      sinceUpdate, inBurst, dispatchedSinceUpdate, confirmed, everKey,
      storeBefore, assocInFlight, lastDone>>

\* the store and the normalizer on their own
libraryVars == <<localStorage, baseUrls, got, rawEntry, canonical>>

\* what no step of the mounted command touches
otherVars == <<mounted, libraryVars>>

vars == <<commandVars, otherVars>>

NoRequest == [RequestType |-> "none"]

Queries == { <<>>, <<SP, "g">> }

\* clearTimeout(id)
clearTimeout(ts, id) == { t \in ts : t.id # id }

\* the id setTimeout returns: one no pending timer has
freshId(ts) ==
    CHOOSE i \in 1..(Cardinality(ts) + 1) : \A t \in ts : t.id # i

\* The debounce effect: clear the timer debounceRef holds, set a new one whose
\* callback closes over this render's searchText and needsAssociation.
\* The effect without its clearTimeout calls
debounceEffectNoClear(ts, ref, text, needs) ==
    [timers |-> ts \cup { [id |-> freshId(ts), text |-> text, needs |-> needs,
                           due |-> SEARCH_DEBOUNCE_MS] },
     ref |-> freshId(ts)]

\* The result is the timer table and the new debounceRef.current.
debounceEffect(ts, ref, text, needs) ==
    LET cleared == clearTimeout(ts, ref)
        id == freshId(cleared)
    IN  [timers |-> cleared \cup { [id |-> id, text |-> text, needs |-> needs,
                                    due |-> SEARCH_DEBOUNCE_MS] },
         ref |-> id]

\* the cleanup that leaves the timer pending
debounceCleanupNone(ts, ref) == ts

\* the debounce effect's cleanup, which React runs at unmount
debounceCleanup(ts, ref) == IF ref # 0 THEN clearTimeout(ts, ref) ELSE ts

\* a useState setter: React drops the update once the Command is unmounted
setState(old, new) == IF mounted THEN new ELSE old

\* the timer callback's gate: `needsAssociation !== false`
gateClosed(needs) == needs # "false"

\* the policy that never clears
clearsOnNever(kind) == FALSE

\* the policy that clears on any KeepassAssociationError
clearsOnAny(kind) == TRUE

\* runTest's policy on a KeepassAssociationError: clear only when invalid
clearsOn(kind) == kind = "invalid"

StoredInit == {NULL, <<SP>>, <<"b">>}

Init ==
    /\ store \in StoredInit
    /\ searchText = <<>>
    /\ entries = <<>>
    /\ isLoading = FALSE
    /\ needsAssociation = "null"
    /\ isAssociating = FALSE
    /\ timers = debounceEffect({}, 0, <<>>, "null").timers
    /\ debounceRef = debounceEffect({}, 0, <<>>, "null").ref
    /\ retrievals = <<>>
    /\ pcCheck = "reading"
    /\ pcTest = "reading"
    /\ testResult = "pending"
    /\ pcAssoc = "idle"
    /\ assocKey = NULL
    /\ assocResult = "none"
    /\ testReq = NoRequest
    /\ assocReq = NoRequest
    /\ sinceUpdate = 0
    /\ dispatchedSinceUpdate = 0
    /\ confirmed = FALSE
    /\ everKey = Usable(store)
    /\ storeBefore = store
    /\ assocInFlight = 0
    /\ lastDone = [failed |-> FALSE, toast |-> FALSE]
    /\ newest = "none"
    /\ testBlank = FALSE
    /\ testSent = 0
    /\ inBurst = FALSE
    /\ mounted = TRUE
    /\ localStorage = <<>>
    /\ baseUrls = <<>>
    /\ got = NULL
    /\ rawEntry = NULL
    /\ canonical = NULL

\* ------------------------------------------------------- start-up effects
debounceVars == <<debounceRef, timers, sinceUpdate, inBurst, dispatchedSinceUpdate>>
retrievalVars == <<retrievals, newest, lastDone>>
testVars == <<pcTest, testResult, testBlank, testSent, testReq>>
assocVars ==
    <<pcAssoc, assocReq, assocKey, assocResult, storeBefore, isAssociating,
      assocInFlight>>
listVars == <<searchText, entries, isLoading>>

\* checkAssociation: hasSharedKey() resolves, setNeedsAssociation(!hasKey)
CheckAssociationDone ==
    /\ pcCheck = "reading"
    /\ pcCheck' = "done"
    /\ needsAssociation' =
           setState(needsAssociation,
                    IF hasSharedKey(store) THEN "false" ELSE "true")
    /\ UNCHANGED <<store, confirmed, everKey, listVars,
                   debounceVars, retrievalVars, testVars, assocVars>>
    /\ UNCHANGED otherVars

\* runTest, first step: testAssociate's requireSharedKey resolves. Without a
\* key it throws "missing", which runTest turns into setNeedsAssociation(true);
\* with one, the test-associate request goes out.
TestRead ==
    /\ pcTest = "reading"
    /\ testBlank' = ~Usable(store)
    /\ LET key == requireSharedKey(store)
       IN  IF key = NULL
           THEN /\ testResult' = "missing"
                /\ pcTest' = IF clearsOn("missing") THEN "clearing" ELSE "done"
                /\ needsAssociation' =
                       IF clearsOn("missing") THEN needsAssociation
                       ELSE setState(needsAssociation, "true")
                /\ UNCHANGED <<testSent, testReq>>
           ELSE /\ testSent' = testSent + 1
                /\ testReq' = testAssociatePayload(key)
                /\ pcTest' = "sent"
                /\ UNCHANGED <<testResult, needsAssociation>>
    /\ UNCHANGED <<store, pcCheck, confirmed, everKey, listVars, debounceVars,
                   retrievalVars, assocVars>>
    /\ UNCHANGED otherVars

\* runTest, second step: the test-associate response arrives.
TestReply(reply) ==
    /\ pcTest = "sent"
    /\ IF sendRequestThrows(reply)
       THEN \* a plain Error: a toast, needsAssociation untouched
            /\ testResult' = "error"
            /\ pcTest' = "done"
            /\ UNCHANGED <<needsAssociation, confirmed>>
       ELSE IF testReportsInvalid(reply)
       THEN \* KeepassAssociationError("invalid")
            /\ testResult' = "invalid"
            /\ pcTest' = IF clearsOn("invalid") THEN "clearing" ELSE "done"
            /\ needsAssociation' =
                   IF clearsOn("invalid") THEN needsAssociation
                   ELSE setState(needsAssociation, "true")
            /\ UNCHANGED confirmed
       ELSE /\ testResult' = "ok"
            /\ pcTest' = "done"
            /\ needsAssociation' = setState(needsAssociation, "false")
            /\ confirmed' = TRUE
    /\ testReq' = NoRequest
    /\ UNCHANGED <<store, pcCheck, everKey, testBlank, testSent,
                   listVars, debounceVars, retrievalVars, assocVars>>
    /\ UNCHANGED otherVars

\* runTest, last step: clearSharedKey() resolves, setNeedsAssociation(true)
TestClearDone ==
    /\ pcTest = "clearing"
    /\ store' = clearSharedKey(store)
    /\ confirmed' = FALSE
    /\ needsAssociation' = setState(needsAssociation, "true")
    /\ pcTest' = "done"
    /\ UNCHANGED <<pcCheck, everKey, testResult, testBlank, testSent, testReq,
                   listVars, debounceVars, retrievalVars, assocVars>>
    /\ UNCHANGED otherVars

\* ------------------------------------------------------ requestAssociation
\* requestAssociation without its first statement
returnsEarlyNever(associating) == FALSE

\* `if (isAssociating) return`
returnsEarly(associating) == associating

\* The user runs the empty view's action, there while needsAssociation is
\* true and the list shows no entry; `if (isAssociating) return` guards
\* re-entry. associate() sends at once.
RequestAssociation ==
    /\ needsAssociation = "true"
    /\ entries = <<>>
    /\ ~returnsEarly(isAssociating)
    /\ isAssociating' = setState(isAssociating, TRUE)
    /\ assocReq' = associatePayload
    /\ assocInFlight' = assocInFlight + 1
    /\ pcAssoc' = "sent"
    /\ assocKey' = NULL
    /\ assocResult' = "pending"
    /\ storeBefore' = store
    /\ UNCHANGED <<store, needsAssociation, pcCheck, confirmed, everKey,
                   listVars, debounceVars, retrievalVars, testVars>>
    /\ UNCHANGED otherVars

\* associate: the response arrives; `key` is response.Key ?? response.key,
\* no usable key throws, else setSharedKey(key) starts
AssociateReply(reply) ==
    /\ pcAssoc = "sent"
    /\ assocReq' = NoRequest
    /\ assocInFlight' = assocInFlight - 1
    /\ assocKey' = IF sendRequestThrows(reply) THEN NULL ELSE associateKey(reply)
    /\ IF associateThrows(reply)
       THEN /\ assocResult' = "error"
            /\ pcAssoc' = "toast"
       ELSE /\ pcAssoc' = "storing"
            /\ UNCHANGED assocResult
    /\ UNCHANGED <<store, needsAssociation, pcCheck, confirmed, everKey,
                   storeBefore, isAssociating, listVars, debounceVars,
                   retrievalVars, testVars>>
    /\ UNCHANGED otherVars

\* associate: setSharedKey resolves, the key is returned;
\* requestAssociation then calls setNeedsAssociation(false) and shows a toast
AssociateStored ==
    /\ pcAssoc = "storing"
    /\ store' = setSharedKey(store, assocKey)
    /\ everKey' = (everKey \/ Usable(store'))
    /\ confirmed' = TRUE
    /\ assocResult' = "ok"
    /\ needsAssociation' = setState(needsAssociation, "false")
    /\ pcAssoc' = "toast"
    /\ UNCHANGED <<pcCheck, assocReq, assocKey, storeBefore, isAssociating,
                   assocInFlight,
                   listVars, debounceVars, retrievalVars, testVars>>
    /\ UNCHANGED otherVars

\* requestAssociation: the toast resolves, finally setIsAssociating(false)
AssociateToastDone ==
    /\ pcAssoc = "toast"
    /\ isAssociating' = setState(isAssociating, FALSE)
    /\ pcAssoc' = "idle"
    /\ UNCHANGED <<store, needsAssociation, pcCheck, confirmed, everKey,
                   assocReq, assocKey, assocResult, storeBefore,
                   assocInFlight, listVars,
                   debounceVars, retrievalVars, testVars>>
    /\ UNCHANGED otherVars

\* ------------------------------------------------------------ the debounce
Min(a, b) == IF a < b THEN a ELSE b
Max(a, b) == IF a > b THEN a ELSE b

\* onSearchTextChange with a new text: the render runs the effect's cleanup
\* and then the effect, with this render's needsAssociation in the closure.
SetSearchText(q) ==
    /\ q # searchText
    /\ searchText' = q
    /\ timers' = debounceEffect(timers, debounceRef, q, needsAssociation).timers
    /\ debounceRef' = debounceEffect(timers, debounceRef, q, needsAssociation).ref
    /\ inBurst' = (sinceUpdate < SEARCH_DEBOUNCE_MS)
    /\ sinceUpdate' = 0
    /\ dispatchedSinceUpdate' = 0
    /\ UNCHANGED <<store, needsAssociation, pcCheck, confirmed, everKey, entries, isLoading, retrievalVars, testVars,
                   assocVars>>
    /\ UNCHANGED otherVars

\* Time passes.
Tick ==
    /\ sinceUpdate < SEARCH_DEBOUNCE_MS \/ \E t \in timers : t.due > 0
    /\ sinceUpdate' = Min(SEARCH_DEBOUNCE_MS, sinceUpdate + TickMs)
    /\ timers' = { [t EXCEPT !.due = Max(0, @ - TickMs)] : t \in timers }
    /\ UNCHANGED <<store, needsAssociation, pcCheck, confirmed, everKey, debounceRef, inBurst, dispatchedSinceUpdate,
                   listVars, retrievalVars, testVars, assocVars>>
    /\ UNCHANGED otherVars

\* A getLogins call in progress: reading the key, its request in flight, or
\* in the catch awaiting the failure toast. A call that completes leaves.
NewRetrieval(text) == [pc |-> "reading", query |-> text, req |-> NoRequest]
Sent(req) == [pc |-> "sent", query |-> <<>>, req |-> req]
Toasting == [pc |-> "toast", query |-> <<>>, req |-> NoRequest]

RemoveAt(seq, i) == SubSeq(seq, 1, i - 1) \o SubSeq(seq, i + 1, Len(seq))

\* `newest` once call i has completed with `outcome`
newestAfter(i, outcome) ==
    IF i = Len(retrievals) /\ newest = "pending" THEN outcome ELSE newest

\* A due timer fires. Behind a closed gate the callback empties the list and
\* returns; else setIsLoading(true) and client.getLogins(searchText) starts.
TimerFire(t) ==
    /\ t \in timers
    /\ t.due = 0
    /\ timers' = timers \ {t}
    /\ IF gateClosed(t.needs)
       THEN /\ entries' = setState(entries, <<>>)
            /\ isLoading' = setState(isLoading, FALSE)
            /\ UNCHANGED <<retrievals, newest, dispatchedSinceUpdate>>
       ELSE /\ Len(retrievals) < MaxRetrievals
            /\ isLoading' = setState(isLoading, TRUE)
            /\ retrievals' = Append(retrievals, NewRetrieval(t.text))
            /\ newest' = "pending"
            /\ dispatchedSinceUpdate' = dispatchedSinceUpdate + 1
            /\ UNCHANGED entries
    /\ UNCHANGED <<store, needsAssociation, pcCheck, confirmed, everKey,
                   searchText, debounceRef, sinceUpdate, inBurst, lastDone,
                   testVars, assocVars>>
    /\ UNCHANGED otherVars

\* getLogins: requireSharedKey resolves; "missing" is thrown to the callback's
\* catch, which awaits the failure toast; else the get-logins request goes out.
RetrievalRead(i) ==
    /\ i \in 1..Len(retrievals)
    /\ retrievals[i].pc = "reading"
    /\ LET key == requireSharedKey(store)
       IN  retrievals' =
               [retrievals EXCEPT ![i] =
                   IF key = NULL THEN Toasting
                   ELSE Sent(getLoginsPayload(key, retrievals[i].query))]
    /\ UNCHANGED <<store, needsAssociation, pcCheck, confirmed, everKey,
                   newest, lastDone, listVars, debounceVars, testVars,
                   assocVars>>
    /\ UNCHANGED otherVars

\* getLogins: the response arrives. A transport or decode failure goes to the
\* catch; any decoded body is mapped and emitted, then setIsLoading(false).
RetrievalReply(i, reply) ==
    /\ i \in 1..Len(retrievals)
    /\ retrievals[i].pc = "sent"
    /\ IF sendRequestThrows(reply)
       THEN /\ retrievals' = [retrievals EXCEPT ![i] = Toasting]
            /\ UNCHANGED <<entries, isLoading, lastDone, newest>>
       ELSE /\ retrievals' = RemoveAt(retrievals, i)
            /\ newest' = newestAfter(i, "ok")
            /\ lastDone' = [failed |-> reply.Success = "false", toast |-> FALSE]
            /\ entries' = setState(entries, mapEntries(replyEntries(reply)))
            /\ isLoading' = setState(isLoading, FALSE)
    /\ UNCHANGED <<store, needsAssociation, pcCheck, confirmed, everKey,
                   searchText, debounceVars, testVars, assocVars>>
    /\ UNCHANGED otherVars

\* the catch after its toast: setEntries([]), finally setIsLoading(false)
RetrievalToastDone(i) ==
    /\ i \in 1..Len(retrievals)
    /\ retrievals[i].pc = "toast"
    /\ retrievals' = RemoveAt(retrievals, i)
    /\ newest' = newestAfter(i, "failed")
    /\ lastDone' = [failed |-> TRUE, toast |-> TRUE]
    /\ entries' = setState(entries, <<>>)
    /\ isLoading' = setState(isLoading, FALSE)
    /\ UNCHANGED <<store, needsAssociation, pcCheck, confirmed, everKey,
                   searchText, debounceVars, testVars, assocVars>>
    /\ UNCHANGED otherVars

Next ==
    \/ CheckAssociationDone
    \/ TestRead
    \/ \E reply \in TestReplies : TestReply(reply)
    \/ TestClearDone
    \/ RequestAssociation
    \/ \E reply \in AssociateReplies : AssociateReply(reply)
    \/ AssociateStored
    \/ AssociateToastDone
    \/ \E q \in Queries : SetSearchText(q)
    \/ Tick
    \/ \E t \in timers : TimerFire(t)
    \/ \E i \in 1..MaxRetrievals : RetrievalRead(i)
    \/ \E i \in 1..MaxRetrievals, reply \in GetLoginsReplies : RetrievalReply(i, reply)
    \/ \E i \in 1..MaxRetrievals : RetrievalToastDone(i)

Spec == Init /\ [][Next]_vars

\* The event loop runs every continuation that is ready and every timer that
\* is due, and fetch, LocalStorage and showToast settle their promises. The
\* user owes no keystroke and no action.
Fairness ==
    /\ WF_vars(CheckAssociationDone)
    /\ WF_vars(TestRead)
    /\ WF_vars(\E reply \in TestReplies : TestReply(reply))
    /\ WF_vars(TestClearDone)
    /\ WF_vars(\E reply \in AssociateReplies : AssociateReply(reply))
    /\ WF_vars(AssociateStored)
    /\ WF_vars(AssociateToastDone)
    /\ WF_vars(Tick)
    /\ WF_vars(\E t \in timers : TimerFire(t))
    /\ WF_vars(\E i \in 1..MaxRetrievals : RetrievalRead(i))
    /\ WF_vars(\E i \in 1..MaxRetrievals, reply \in GetLoginsReplies :
                   RetrievalReply(i, reply))
    /\ WF_vars(\E i \in 1..MaxRetrievals : RetrievalToastDone(i))

SpecLive == Init /\ [][Next]_vars /\ Fairness

\* ------------------------------------------------------------- the teardown
\* The Command is closed: React runs the debounce effect's cleanup. Calls
\* that have started go on, their setState calls dropped; the search bar and
\* the empty view's action are gone.
Unmount ==
    /\ mounted
    /\ mounted' = FALSE
    /\ timers' = debounceCleanup(timers, debounceRef)
    /\ UNCHANGED <<store, needsAssociation, pcCheck, confirmed, everKey,
                   debounceRef, sinceUpdate, inBurst, dispatchedSinceUpdate,
                   listVars, retrievalVars, testVars, assocVars, libraryVars>>

NextTeardown ==
    \/ CheckAssociationDone
    \/ TestRead
    \/ \E reply \in TestReplies : TestReply(reply)
    \/ TestClearDone
    \/ mounted /\ RequestAssociation
    \/ \E reply \in AssociateReplies : AssociateReply(reply)
    \/ AssociateStored
    \/ AssociateToastDone
    \/ mounted /\ \E q \in Queries : SetSearchText(q)
    \/ Tick
    \/ \E t \in timers : TimerFire(t)
    \/ \E i \in 1..MaxRetrievals : RetrievalRead(i)
    \/ \E i \in 1..MaxRetrievals, reply \in GetLoginsReplies : RetrievalReply(i, reply)
    \/ \E i \in 1..MaxRetrievals : RetrievalToastDone(i)
    \/ Unmount

\* a first render with no value stored, or with a key
InitTeardown == Init /\ store \in {NULL, <<"b">>}

SpecTeardown == InitTeardown /\ [][NextTeardown]_vars

\* ------------------------------------------- the earlier client and command
\* src/keepass-http.ts with the Command that has no association state: the
\* client's ensureKey asks the server for a key whenever none is stored.
legacyMapEntry(entry) ==
    LET mapped == mapEntry(entry)
    IN  [f \in DOMAIN mapped \ {"group"} |-> mapped[f]]

RECURSIVE legacyMapEntries(_)
legacyMapEntries(raws) ==
    IF raws = <<>> THEN <<>>
    ELSE <<legacyMapEntry(Head(raws))>> \o legacyMapEntries(Tail(raws))

\* A call inside ensureKey: awaiting the approval toast, the associate
\* request in flight, awaiting setSharedKey with the request that follows it.
Prompting(text) == [pc |-> "prompt", query |-> text, req |-> NoRequest]
Associating(text) == [pc |-> "associating", query |-> text, req |-> associatePayload]
Storing(req) == [pc |-> "storing", query |-> <<>>, req |-> req]

InitLegacy ==
    /\ store \in StoredInit
    /\ searchText = <<>>
    /\ entries = <<>>
    /\ isLoading = FALSE
    /\ needsAssociation = "null"
    /\ isAssociating = FALSE
    /\ timers = debounceEffect({}, 0, <<>>, "null").timers
    /\ debounceRef = debounceEffect({}, 0, <<>>, "null").ref
    /\ retrievals = <<>>
    /\ pcCheck = "none"
    /\ pcTest = "reading"
    /\ testResult = "pending"
    /\ pcAssoc = "idle"
    /\ assocKey = NULL
    /\ assocResult = "none"
    /\ testReq = NoRequest
    /\ assocReq = NoRequest
    /\ sinceUpdate = 0
    /\ dispatchedSinceUpdate = 0
    /\ confirmed = FALSE
    /\ everKey = Usable(store)
    /\ storeBefore = store
    /\ assocInFlight = 0
    /\ lastDone = [failed |-> FALSE, toast |-> FALSE]
    /\ newest = "none"
    /\ testBlank = FALSE
    /\ testSent = 0
    /\ inBurst = FALSE
    /\ mounted = TRUE
    /\ localStorage = <<>>
    /\ baseUrls = <<>>
    /\ got = NULL
    /\ rawEntry = NULL
    /\ canonical = NULL

\* the variables the earlier command does not have, and ghosts it leaves alone
legacyIdle == <<needsAssociation, pcCheck, confirmed, assocVars>>

\* runTest, first step: testAssociate's ensureKey reads the store. With a key
\* the test-associate request goes out; without one the approval toast shows.
LegacyTestRead ==
    /\ pcTest = "reading"
    /\ testBlank' = ~Usable(store)
    /\ LET existing == getSharedKey(store)
       IN  IF Truthy(existing)
           THEN /\ testReq' = testAssociatePayload(existing)
                /\ testSent' = testSent + 1
                /\ pcTest' = "sent"
           ELSE /\ pcTest' = "prompt"
                /\ UNCHANGED <<testReq, testSent>>
    /\ UNCHANGED <<store, everKey, testResult, listVars, debounceVars,
                   retrievalVars, legacyIdle>>
    /\ UNCHANGED otherVars

\* ensureKey after its toast: `return associate()`, the request goes out
LegacyTestPromptDone ==
    /\ pcTest = "prompt"
    /\ pcTest' = "associating"
    /\ testReq' = associatePayload
    /\ testSent' = testSent + 1
    /\ UNCHANGED <<store, everKey, testResult, testBlank, listVars,
                   debounceVars, retrievalVars, legacyIdle>>
    /\ UNCHANGED otherVars

\* associate's response: a failure goes to runTest's catch and its toast;
\* a key goes to setSharedKey, with the test-associate request to follow.
LegacyTestAssociateReply(reply) ==
    /\ pcTest = "associating"
    /\ IF associateThrows(reply)
       THEN /\ testResult' = "error"
            /\ testReq' = NoRequest
            /\ pcTest' = "toast"
       ELSE /\ testReq' = testAssociatePayload(associateKey(reply))
            /\ pcTest' = "storing"
            /\ UNCHANGED testResult
    /\ UNCHANGED <<store, everKey, testBlank, testSent, listVars,
                   debounceVars, retrievalVars, legacyIdle>>
    /\ UNCHANGED otherVars

\* setSharedKey resolves, ensureKey returns the key, test-associate goes out
LegacyTestStored ==
    /\ pcTest = "storing"
    /\ store' = setSharedKey(store, testReq.Key)
    /\ everKey' = (everKey \/ Usable(store'))
    /\ testSent' = testSent + 1
    /\ pcTest' = "sent"
    /\ UNCHANGED <<testResult, testBlank, testReq, listVars, debounceVars,
                   retrievalVars, legacyIdle>>
    /\ UNCHANGED otherVars

\* test-associate's response: any failure is a plain Error for the catch
LegacyTestReply(reply) ==
    /\ pcTest = "sent"
    /\ testReq' = NoRequest
    /\ IF sendRequestThrows(reply) \/ testReportsInvalid(reply)
       THEN testResult' = "error" /\ pcTest' = "toast"
       ELSE testResult' = "ok" /\ pcTest' = "done"
    /\ UNCHANGED <<store, everKey, testBlank, testSent, listVars,
                   debounceVars, retrievalVars, legacyIdle>>
    /\ UNCHANGED otherVars

\* runTest's catch after its toast
LegacyTestToastDone ==
    /\ pcTest = "toast"
    /\ pcTest' = "done"
    /\ UNCHANGED <<store, everKey, testResult, testBlank, testSent, testReq,
                   listVars, debounceVars, retrievalVars, legacyIdle>>
    /\ UNCHANGED otherVars

\* A due timer fires: setIsLoading(true), client.getLogins(searchText) starts.
LegacyTimerFire(t) ==
    /\ t \in timers
    /\ t.due = 0
    /\ Len(retrievals) < MaxRetrievals
    /\ timers' = timers \ {t}
    /\ isLoading' = TRUE
    /\ retrievals' = Append(retrievals, NewRetrieval(t.text))
    /\ newest' = "pending"
    /\ dispatchedSinceUpdate' = dispatchedSinceUpdate + 1
    /\ UNCHANGED <<store, everKey, searchText, entries, debounceRef,
                   sinceUpdate, inBurst, lastDone, testVars, legacyIdle>>
    /\ UNCHANGED otherVars

\* getLogins: ensureKey reads the store
LegacyRetrievalRead(i) ==
    /\ i \in 1..Len(retrievals)
    /\ retrievals[i].pc = "reading"
    /\ LET existing == getSharedKey(store)
       IN  retrievals' =
               [retrievals EXCEPT ![i] =
                   IF Truthy(existing)
                   THEN Sent(getLoginsPayload(existing, retrievals[i].query))
                   ELSE Prompting(retrievals[i].query)]
    /\ UNCHANGED <<store, everKey, newest, lastDone, listVars, debounceVars,
                   testVars, legacyIdle>>
    /\ UNCHANGED otherVars

LegacyRetrievalPromptDone(i) ==
    /\ i \in 1..Len(retrievals)
    /\ retrievals[i].pc = "prompt"
    /\ retrievals' = [retrievals EXCEPT ![i] = Associating(retrievals[i].query)]
    /\ UNCHANGED <<store, everKey, newest, lastDone, listVars, debounceVars,
                   testVars, legacyIdle>>
    /\ UNCHANGED otherVars

LegacyRetrievalAssociateReply(i, reply) ==
    /\ i \in 1..Len(retrievals)
    /\ retrievals[i].pc = "associating"
    /\ retrievals' =
           [retrievals EXCEPT ![i] =
               IF associateThrows(reply) THEN Toasting
               ELSE Storing(getLoginsPayload(associateKey(reply),
                                             retrievals[i].query))]
    /\ UNCHANGED <<store, everKey, newest, lastDone, listVars, debounceVars,
                   testVars, legacyIdle>>
    /\ UNCHANGED otherVars

LegacyRetrievalStored(i) ==
    /\ i \in 1..Len(retrievals)
    /\ retrievals[i].pc = "storing"
    /\ store' = setSharedKey(store, retrievals[i].req.Key)
    /\ everKey' = (everKey \/ Usable(store'))
    /\ retrievals' = [retrievals EXCEPT ![i] = Sent(retrievals[i].req)]
    /\ UNCHANGED <<newest, lastDone, listVars, debounceVars, testVars,
                   legacyIdle>>
    /\ UNCHANGED otherVars

LegacyRetrievalReply(i, reply) ==
    /\ i \in 1..Len(retrievals)
    /\ retrievals[i].pc = "sent"
    /\ IF sendRequestThrows(reply)
       THEN /\ retrievals' = [retrievals EXCEPT ![i] = Toasting]
            /\ UNCHANGED <<entries, isLoading, lastDone, newest>>
       ELSE /\ retrievals' = RemoveAt(retrievals, i)
            /\ newest' = newestAfter(i, "ok")
            /\ lastDone' = [failed |-> reply.Success = "false", toast |-> FALSE]
            /\ entries' = legacyMapEntries(replyEntries(reply))
            /\ isLoading' = FALSE
    /\ UNCHANGED <<store, everKey, searchText, debounceVars, testVars,
                   legacyIdle>>
    /\ UNCHANGED otherVars

LegacyRetrievalToastDone(i) ==
    /\ i \in 1..Len(retrievals)
    /\ retrievals[i].pc = "toast"
    /\ retrievals' = RemoveAt(retrievals, i)
    /\ newest' = newestAfter(i, "failed")
    /\ lastDone' = [failed |-> TRUE, toast |-> TRUE]
    /\ entries' = <<>>
    /\ isLoading' = FALSE
    /\ UNCHANGED <<store, everKey, searchText, debounceVars, testVars,
                   legacyIdle>>
    /\ UNCHANGED otherVars

NextLegacy ==
    \/ LegacyTestRead
    \/ LegacyTestPromptDone
    \/ \E reply \in AssociateReplies : LegacyTestAssociateReply(reply)
    \/ LegacyTestStored
    \/ \E reply \in TestReplies : LegacyTestReply(reply)
    \/ LegacyTestToastDone
    \/ \E q \in Queries : SetSearchText(q)
    \/ Tick
    \/ \E t \in timers : LegacyTimerFire(t)
    \/ \E i \in 1..MaxRetrievals : LegacyRetrievalRead(i)
    \/ \E i \in 1..MaxRetrievals : LegacyRetrievalPromptDone(i)
    \/ \E i \in 1..MaxRetrievals, reply \in AssociateReplies :
           LegacyRetrievalAssociateReply(i, reply)
    \/ \E i \in 1..MaxRetrievals : LegacyRetrievalStored(i)
    \/ \E i \in 1..MaxRetrievals, reply \in GetLoginsReplies :
           LegacyRetrievalReply(i, reply)
    \/ \E i \in 1..MaxRetrievals : LegacyRetrievalToastDone(i)

SpecLegacy == InitLegacy /\ [][NextLegacy]_vars

\* ------------------------------------------ the store under several clients
\* Clients made by createKeepassHttpClient from their own preferences, all
\* on the one LocalStorage, each calling its store functions in any order.
NumClients == 2
Clients == 1..NumClients

\* the literal "keepass-http-shared-key"
STORAGE_KEY_PREFIX ==
    <<"k", "e", "e", "p", "a", "s", "s", "-", "h", "t", "t", "p", "-",
      "s", "h", "a", "r", "e", "d", "-", "k", "e", "y">>

\* requireBaseUrl: the trimmed preference; NULL when it throws
requireBaseUrl(preference) ==
    IF Truthy(trim(preference)) THEN trim(preference) ELSE NULL

\* one storage key whatever the base URL
storageKeyShared(baseUrl) == STORAGE_KEY_PREFIX

\* `${STORAGE_KEY_PREFIX}:${baseUrl}`
storageKey(baseUrl) == STORAGE_KEY_PREFIX \o <<":">> \o baseUrl

\* baseUrl preferences: two servers, one of them also written with a space
\* after it and with a path, and a blank one
BaseUrlPreferences ==
    { <<"h">>, <<"h", SP>>, <<"h", "/">>, <<"i">>, <<SP>> }

StorageKeys ==
    { storageKey(requireBaseUrl(preference)) :
        preference \in { q \in BaseUrlPreferences : requireBaseUrl(q) # NULL } }

\* what setSharedKey may be given, and what the storage may hold
StoredVals == { <<>>, <<SP>>, <<"a">>, <<SP, "a", SP>> }

\* the client's baseUrl, NULL when its construction threw
baseUrlOf(c) == requireBaseUrl(baseUrls[c])

NoCall == [client |-> 0, op |-> "none", raw |-> NULL, key |-> NULL, has |-> FALSE]

\* the command is not there: its variables stay as a first render has them
CommandAtStart ==
    /\ store = NULL
    /\ searchText = <<>>
    /\ entries = <<>>
    /\ isLoading = FALSE
    /\ needsAssociation = "null"
    /\ isAssociating = FALSE
    /\ timers = {}
    /\ debounceRef = 0
    /\ retrievals = <<>>
    /\ pcCheck = "none"
    /\ pcTest = "none"
    /\ testResult = "pending"
    /\ pcAssoc = "idle"
    /\ assocKey = NULL
    /\ assocResult = "none"
    /\ testReq = NoRequest
    /\ assocReq = NoRequest
    /\ sinceUpdate = 0
    /\ dispatchedSinceUpdate = 0
    /\ confirmed = FALSE
    /\ everKey = FALSE
    /\ storeBefore = NULL
    /\ assocInFlight = 0
    /\ lastDone = [failed |-> FALSE, toast |-> FALSE]
    /\ newest = "none"
    /\ testBlank = FALSE
    /\ testSent = 0
    /\ inBurst = FALSE
    /\ mounted = FALSE

InitStore ==
    /\ CommandAtStart
    /\ baseUrls \in [Clients -> BaseUrlPreferences]
    /\ localStorage = [k \in StorageKeys |-> NULL]
    /\ got = NoCall
    /\ rawEntry = NULL
    /\ canonical = NULL

\* client c's setSharedKey(key) resolves
StoreSet(c, key) ==
    /\ baseUrlOf(c) # NULL
    /\ localStorage' =
           [localStorage EXCEPT ![storageKey(baseUrlOf(c))] = setSharedKey(@, key)]
    /\ got' = [NoCall EXCEPT !.client = c, !.op = "set"]
    /\ UNCHANGED <<commandVars, mounted, baseUrls, rawEntry, canonical>>

\* client c's clearSharedKey() resolves
StoreClear(c) ==
    /\ baseUrlOf(c) # NULL
    /\ localStorage' =
           [localStorage EXCEPT ![storageKey(baseUrlOf(c))] = clearSharedKey(@)]
    /\ got' = [NoCall EXCEPT !.client = c, !.op = "clear"]
    /\ UNCHANGED <<commandVars, mounted, baseUrls, rawEntry, canonical>>

\* client c's getSharedKey() and hasSharedKey() resolve
StoreGet(c) ==
    /\ baseUrlOf(c) # NULL
    /\ LET raw == localStorage[storageKey(baseUrlOf(c))]
       IN  got' = [client |-> c, op |-> "get", raw |-> raw,
                   key |-> getSharedKey(raw), has |-> hasSharedKey(raw)]
    /\ UNCHANGED <<commandVars, mounted, localStorage, baseUrls, rawEntry,
                   canonical>>

NextStore ==
    \/ \E c \in Clients, key \in StoredVals : StoreSet(c, key)
    \/ \E c \in Clients : StoreClear(c)
    \/ \E c \in Clients : StoreGet(c)

SpecStore == InitStore /\ [][NextStore]_vars

\* ------------------------------------------------ the normalizer on its own
\* a KeepassEntry seen as the KeepassHttpEntry the list is typed to hold
asHttpEntry(entry) ==
    [BlankEntry EXCEPT !.uuid = entry.uuid, !.title = entry.title,
                       !.username = entry.username, !.password = entry.password,
                       !.url = entry.url, !.notes = entry.notes,
                       !.group = entry.group]

\* the Command's mapEntryForDisplay, applied to each entry it renders
mapEntryForDisplay(entry) ==
    LET stringFields == stringFieldsOf(entry)
    IN  [uuid |-> Nullish(entry.uuid, Nullish(entry.UUID, entry.Uuid)),
         title |-> Nullish(entry.title,
                     Nullish(entry.Title, Nullish(entry.Name, UNTITLED))),
         username |-> Nullish(entry.username,
                        Nullish(entry.Username,
                          Nullish(entry.Login,
                            Nullish(stringFields.UserName, stringFields.username)))),
         password |-> Nullish(entry.password,
                        Nullish(entry.Password, stringFields.Password)),
         url |-> Nullish(entry.url, Nullish(entry.Url, entry.URL)),
         notes |-> Nullish(entry.notes, entry.Notes),
         group |-> Nullish(entry.group, Nullish(entry.Group, entry.GroupPath))]

\* what one alias may hold: nothing, the empty string, or a value of its own
AliasVals(own) == {NULL, <<>>, <<own>>}

StringFieldsWith(a, b, c) ==
    [present |-> (a # NULL \/ b # NULL \/ c # NULL),
     UserName |-> a, username |-> b, Password |-> c]

\* raw entries: every combination of the aliases of one canonical field
RawEntries ==
    { [BlankEntry EXCEPT !.uuid = a, !.UUID = b, !.Uuid = c] :
        a \in AliasVals("1"), b \in AliasVals("2"), c \in AliasVals("3") }
    \cup
    { [BlankEntry EXCEPT !.title = a, !.Title = b, !.Name = c] :
        a \in AliasVals("1"), b \in AliasVals("2"), c \in AliasVals("3") }
    \cup
    { [BlankEntry EXCEPT !.username = a, !.Username = b, !.Login = c,
                         !.StringFields = StringFieldsWith(d, e, NULL)] :
        a \in AliasVals("1"), b \in AliasVals("2"), c \in AliasVals("3"),
        d \in AliasVals("4"), e \in AliasVals("5") }
    \cup
    { [BlankEntry EXCEPT !.password = a, !.Password = b,
                         !.StringFields = StringFieldsWith(NULL, NULL, c)] :
        a \in AliasVals("1"), b \in AliasVals("2"), c \in AliasVals("3") }
    \cup
    { [BlankEntry EXCEPT !.url = a, !.Url = b, !.URL = c] :
        a \in AliasVals("1"), b \in AliasVals("2"), c \in AliasVals("3") }
    \cup
    { [BlankEntry EXCEPT !.notes = a, !.Notes = b] :
        a \in AliasVals("1"), b \in AliasVals("2") }
    \cup
    { [BlankEntry EXCEPT !.group = a, !.Group = b, !.GroupPath = c] :
        a \in AliasVals("1"), b \in AliasVals("2"), c \in AliasVals("3") }

NotMapped == [done |-> FALSE, entry |-> mapEntry(BlankEntry),
              display |-> mapEntry(BlankEntry)]

InitNormalize ==
    /\ CommandAtStart
    /\ baseUrls = <<>>
    /\ localStorage = <<>>
    /\ got = NoCall
    /\ rawEntry \in RawEntries
    /\ canonical = NotMapped

\* getLogins maps the entry, the Command maps it again for its list item
MapEntry ==
    /\ ~canonical.done
    /\ canonical' =
           [done |-> TRUE, entry |-> mapEntry(rawEntry),
            display |-> mapEntryForDisplay(asHttpEntry(mapEntry(rawEntry)))]
    /\ UNCHANGED <<commandVars, mounted, localStorage, baseUrls, got, rawEntry>>

\* the server returns another entry
NextEntry(entry) ==
    /\ canonical.done
    /\ rawEntry' = entry
    /\ canonical' = NotMapped
    /\ UNCHANGED <<commandVars, mounted, localStorage, baseUrls, got>>

NextNormalize ==
    \/ MapEntry
    \/ \E entry \in RawEntries : NextEntry(entry)

SpecNormalize == InitNormalize /\ [][NextNormalize]_vars

\* ------------------------------------------------------------- the claims
\* The Association Manager's three logical states.
AssocState ==
    IF ~Usable(store) THEN "Unassociated"
    ELSE IF confirmed THEN "Associated" ELSE "Unverified"

StartupDone == pcCheck = "done" /\ pcTest = "done"

GetLoginsInFlight == { i \in 1..Len(retrievals) : retrievals[i].pc = "sent" }

\* this step hands a get-logins request to fetch
SendsGetLogins ==
    \E i \in 1..Len(retrievals) :
        /\ retrievals[i].pc = "reading"
        /\ Len(retrievals') = Len(retrievals)
        /\ retrievals'[i].pc = "sent"

\* this step runs a timer callback
TimerFires == Cardinality(timers') < Cardinality(timers)

\* this step starts a getLogins call
Dispatches == newest' = "pending" /\ Len(retrievals') = Len(retrievals) + 1

\* this step completes a getLogins call
RetrievalCompletes == Len(retrievals') < Len(retrievals)

\* C1: as long as no usable secret has been in the store, no get-logins
\* request is in flight, whatever the query updates and timer firings; and
\* once checkAssociation and runTest are done (no associate call having
\* returned a key) needsAssociation is true and the result list is empty.
C1_NoSecretNoGetLogins ==
    /\ ~everKey => GetLoginsInFlight = {}
    /\ (~everKey /\ ~confirmed /\ StartupDone) =>
           (needsAssociation = "true" /\ entries = <<>>)

\* the debounce has fired for the query " g" with no secret stored
C1_Witness ==
    /\ ~everKey /\ ~confirmed /\ StartupDone
    /\ searchText = <<SP, "g">>
    /\ timers = {}
    /\ sinceUpdate = SEARCH_DEBOUNCE_MS

\* C2: a get-logins request is sent only in state Associated, and a timer
\* that fires in state Unassociated or Unverified dispatches nothing and
\* empties the result list.
C2_GetLoginsOnlyWhenAssociated ==
    [][ /\ SendsGetLogins => AssocState = "Associated"
        /\ (TimerFires /\ AssocState # "Associated") =>
               (~Dispatches /\ entries' = <<>>) ]_vars

\* C3: at most one debounce timer is pending; a getLogins call is dispatched
\* only a full quiet period after the last query update, with that update's
\* text, and at most once per update.
C3_DebounceLastTextOnce ==
    [][ /\ Cardinality(timers') <= 1
        /\ dispatchedSinceUpdate' <= 1
        /\ TimerFires => sinceUpdate >= SEARCH_DEBOUNCE_MS
        /\ Dispatches =>
               /\ sinceUpdate >= SEARCH_DEBOUNCE_MS
               /\ retrievals'[Len(retrievals')].query = searchText ]_vars

\* two updates, the second within the quiet period of the first and back to
\* the empty text, have ended in one dispatch, for the empty text
C3_Witness ==
    /\ inBurst
    /\ dispatchedSinceUpdate = 1
    /\ searchText = <<>>
    /\ \E i \in 1..Len(retrievals) :
           retrievals[i].pc = "reading" /\ retrievals[i].query = <<>>

\* C4: at most one getLogins call is in progress at any time.
C4_OneRetrievalInFlight == Len(retrievals) <= 1

\* C5: once the call dispatched last has failed and none is in progress, the
\* result list is empty.
C5_NoStaleResultsAfterFailure ==
    (newest = "failed" /\ retrievals = <<>>) => entries = <<>>

\* C6: a getLogins call that failed at any stage completes with the failure
\* toast shown and the result list empty.
C6_FailureSurfacedAndCleared ==
    [][ (RetrievalCompletes /\ lastDone'.failed) =>
            (lastDone'.toast /\ entries' = <<>>) ]_vars

\* C7: a testAssociate call that found no usable secret in the store hands
\* no request to the transport and fails with the error of kind "missing".
C7_MissingSecretNoTransport ==
    testBlank => (testSent = 0 /\ (pcTest = "done" => testResult = "missing"))

C9_NoKeyLeavesStore ==
    (pcAssoc = "toast" /\ ~Truthy(assocKey)) =>
        (assocResult = "error" /\ store = storeBefore)

\* associate got an empty key while a (blank) value was stored: it is kept
C9_Witness ==
    /\ pcAssoc = "toast" /\ assocKey = <<>>
    /\ assocResult = "error" /\ store = <<SP>>

\* C10: an associate call answered with a usable key is not failed, and
\* the key is the response's Key when that is usable, else its key when Key
\* is not there; when setSharedKey resolves the store holds exactly that
\* key, hasSharedKey is true and the call has succeeded; and every
\* test-associate and get-logins request carries the key the store holds
\* when it is sent.
C10_AssociateStoresUsableKey ==
    [][ /\ \A reply \in AssociateReplies :
               /\ (reply.status = "ok" /\ Usable(reply.Key)) =>
                      associateKey(reply) = reply.Key
               /\ (reply.status = "ok" /\ reply.Key = NULL
                       /\ Usable(reply.key)) =>
                      associateKey(reply) = reply.key
        /\ (pcAssoc = "sent" /\ pcAssoc' # "sent" /\ Usable(assocKey')) =>
               pcAssoc' = "storing"
        /\ (pcAssoc = "storing" /\ pcAssoc' = "toast" /\ Usable(assocKey)) =>
               /\ assocResult' = "ok"
               /\ store' = assocKey
               /\ hasSharedKey(store')
        /\ \A i \in 1..Len(retrievals) :
               (/\ retrievals[i].pc = "reading"
                /\ Len(retrievals') = Len(retrievals)
                /\ retrievals'[i].pc = "sent") =>
                   retrievals'[i].req.Key = store
        /\ (pcTest = "reading" /\ pcTest' = "sent") =>
               testReq'.Key = store ]_vars

\* associate has stored the key "a" and a get-logins request carries it
C10_Witness ==
    /\ assocResult = "ok"
    /\ store = <<"a">>
    /\ \E i \in 1..Len(retrievals) :
           retrievals[i].pc = "sent" /\ retrievals[i].req.Key = <<"a">>

\* C11: no testAssociate call and no getLogins call ever has an associate
\* request in flight: the only associate request is requestAssociation's.
C11_AssociateOnlyOnRequest ==
    /\ testReq.RequestType # "associate"
    /\ \A i \in 1..Len(retrievals) : retrievals[i].req.RequestType # "associate"

\* C12: the stored value changes only when associate's setSharedKey resolves
\* with the key a successful response carried, or when the clear that follows
\* an "invalid" test-associate answer resolves; every step of hasSharedKey,
\* testAssociate and getLogins leaves it as it is.
C12_StoreChangesOnlyBySetOrClear ==
    [][ store' # store =>
            \/ /\ pcAssoc = "storing" /\ pcAssoc' = "toast"
               /\ assocResult' = "ok"
               /\ store' = assocKey
            \/ /\ pcTest = "clearing" /\ pcTest' = "done"
               /\ testResult = "invalid"
               /\ store' = NULL ]_vars

\* the key stored at start was cleared on "invalid", then associate set "a"
C12_Witness ==
    /\ testResult = "invalid" /\ pcTest = "done"
    /\ assocResult = "ok"
    /\ store = <<"a">>

\* C13: clients with distinct base URLs have distinct storage keys, and a
\* set or a clear by one of them leaves what getSharedKey and hasSharedKey
\* give every client of another base URL as it was.
C13_StoresOfDistinctBaseUrlsApart ==
    [][ \A c \in Clients, d \in Clients :
            (baseUrlOf(c) # NULL /\ baseUrlOf(d) # NULL
                /\ baseUrlOf(c) # baseUrlOf(d)) =>
                /\ storageKey(baseUrlOf(c)) # storageKey(baseUrlOf(d))
                /\ (got'.client = d /\ got'.op \in {"set", "clear"}) =>
                       /\ getSharedKey(localStorage'[storageKey(baseUrlOf(c))])
                              = getSharedKey(localStorage[storageKey(baseUrlOf(c))])
                       /\ hasSharedKey(localStorage'[storageKey(baseUrlOf(c))])
                              = hasSharedKey(localStorage[storageKey(baseUrlOf(c))])
      ]_vars

\* client 1 holds "a" after a clear by client 2, which has another base URL
C13_Witness ==
    /\ baseUrlOf(1) # NULL /\ baseUrlOf(2) # NULL
    /\ baseUrlOf(1) # baseUrlOf(2)
    /\ got.client = 2 /\ got.op = "clear"
    /\ localStorage[storageKey(baseUrlOf(1))] = <<"a">>
    /\ localStorage[storageKey(baseUrlOf(2))] = NULL

\* C14: teardown leaves no timer pending; after it no timer callback runs,
\* no getLogins call is dispatched, and entries and isLoading stay as they
\* were, whatever calls were in progress.
C14_TeardownCancelsTimer ==
    [][ /\ (mounted /\ ~mounted') => timers' = {}
        /\ ~mounted =>
               /\ ~mounted'
               /\ timers' = {}
               /\ ~TimerFires
               /\ ~Dispatches
               /\ entries' = entries
               /\ isLoading' = isLoading ]_vars

\* torn down within the quiet period of the last update, so with its timer
\* pending, and with a getLogins call in progress; time has passed since
C14_Witness ==
    /\ ~mounted
    /\ searchText = <<SP, "g">>
    /\ sinceUpdate > 0 /\ sinceUpdate < SEARCH_DEBOUNCE_MS
    /\ retrievals # <<>>

RECURSIVE FirstPresent(_, _)
\* the first value of `aliases` that is there, else `fallback`
FirstPresent(aliases, fallback) ==
    IF aliases = <<>> THEN fallback
    ELSE IF Head(aliases) # NULL THEN Head(aliases)
    ELSE FirstPresent(Tail(aliases), fallback)

\* each canonical field of `entry` is the first present alias of `raw`
FirstAliases(raw, entry) ==
    /\ entry.uuid = FirstPresent(<<raw.uuid, raw.UUID, raw.Uuid>>, NULL)
    /\ entry.title = FirstPresent(<<raw.title, raw.Title, raw.Name>>, UNTITLED)
    /\ entry.username =
           FirstPresent(<<raw.username, raw.Username, raw.Login,
                          raw.StringFields.UserName,
                          raw.StringFields.username>>, NULL)
    /\ entry.password =
           FirstPresent(<<raw.password, raw.Password,
                          raw.StringFields.Password>>, NULL)
    /\ entry.url = FirstPresent(<<raw.url, raw.Url, raw.URL>>, NULL)
    /\ entry.notes = FirstPresent(<<raw.notes, raw.Notes>>, NULL)
    /\ entry.group = FirstPresent(<<raw.group, raw.Group, raw.GroupPath>>, NULL)

\* C15: each canonical field mapEntry gives is the value of the first alias
\* present in the documented order (the fallback when none is), one of the
\* raw entry's values as it stands; the Command's second mapping keeps it.
C15_FirstPresentAlias ==
    canonical.done =>
        /\ FirstAliases(rawEntry, canonical.entry)
        /\ canonical.display = canonical.entry

\* Login and StringFields.UserName are both there: Login's value is taken
C15_Witness ==
    /\ canonical.done
    /\ rawEntry.username = NULL /\ rawEntry.Username = NULL
    /\ rawEntry.Login = <<"3">>
    /\ rawEntry.StringFields.UserName = <<"4">>
    /\ canonical.display.username = <<"3">>

\* C16: the canonical title is never the empty string, and it is "Untitled"
\* when no title-like field is set.
C16_TitleNeverEmpty ==
    canonical.done =>
        /\ canonical.entry.title # <<>>
        /\ canonical.display.title # <<>>
        /\ (rawEntry.title = NULL /\ rawEntry.Title = NULL
                /\ rawEntry.Name = NULL) => canonical.entry.title = UNTITLED

\* queries beyond the ones the Command is given, with what Search must carry
SearchTable ==
    { <<<<>>, NULL>>, <<<<SP>>, NULL>>, <<<<SP, SP>>, NULL>>,
      <<<<"g">>, <<"g">>>>, <<<<SP, "g">>, <<"g">>>>,
      <<<<"g", SP>>, <<"g">>>>, <<<<SP, "g", SP, "h", SP>>, <<"g", SP, "h">>>> }

\* C17: a get-logins request carries the key the store holds when it is
\* sent, its Search is the trimmed query when that is not empty and is left
\* out for an empty or whitespace-only query; and the list a successful
\* call emits holds the normalized form of each raw entry of the response,
\* one for one and in the same order.
C17_GetLoginsRequestAndResult ==
    [][ /\ \A row \in SearchTable :
               getLoginsPayload(store, row[1]).Search = row[2]
        /\ \A reply \in GetLoginsReplies :
               LET raws == replyEntries(reply)
                   out == mapEntries(raws)
               IN  /\ Len(out) = Len(raws)
                   /\ \A j \in 1..Len(raws) : out[j] = mapEntry(raws[j])
        /\ \A i \in 1..Len(retrievals) :
               (/\ retrievals[i].pc = "reading"
                /\ Len(retrievals') = Len(retrievals)
                /\ retrievals'[i].pc = "sent") =>
                   LET q == retrievals[i].query
                       req == retrievals'[i].req
                   IN  /\ req.RequestType = "get-logins"
                       /\ req.Key = store /\ hasSharedKey(store)
                       /\ req.Search = IF trim(q) = <<>> THEN NULL ELSE trim(q)
                       /\ req.Search # NULL =>
                              /\ Head(req.Search) # SP
                              /\ req.Search[Len(req.Search)] # SP
        /\ (\E i \in 1..Len(retrievals) :
               /\ retrievals[i].pc = "sent"
               /\ retrievals' = RemoveAt(retrievals, i)) =>
               \E reply \in GetLoginsReplies :
                   /\ ~sendRequestThrows(reply)
                   /\ Len(entries') = Len(replyEntries(reply))
                   /\ \A j \in 1..Len(entries') :
                          entries'[j] = mapEntry(replyEntries(reply)[j]) ]_vars

\* the list holds the two entries of a response, Bank before Gmail, and the
\* query " g" has gone out as Search "g" with the stored key
C17_Witness ==
    /\ Len(entries) = 2
    /\ entries[1] = mapEntry(BankEntry) /\ entries[2] = mapEntry(GmailEntry)
    /\ \E i \in 1..Len(retrievals) :
           /\ retrievals[i].pc = "sent"
           /\ retrievals[i].req.Search = <<"g">>
           /\ retrievals[i].req.Key = store

\* C18: answered with a non-success HTTP status, associate, testAssociate
\* and getLogins each end in an error their caller receives (the call has
\* not succeeded and has emitted no list), the one request of the call is
\* over and none follows it, and the store is as it was.
C18_HttpErrorFailsTheCall ==
    [][ /\ \A reply \in AssociateReplies :
               (reply.status = "http" /\ AssociateReply(reply)) =>
                   /\ assocResult' = "error" /\ pcAssoc' = "toast"
                   /\ assocReq' = NoRequest
                   /\ store' = store
        /\ pcAssoc = "toast" =>
               /\ pcAssoc' \in {"toast", "idle"} \/ assocResult' = "pending"
               /\ assocResult' = "pending" \/ assocReq' = NoRequest
               /\ store' # store => pcTest = "clearing"
        /\ \A reply \in TestReplies :
               (reply.status = "http" /\ TestReply(reply)) =>
                   /\ testResult' = "error" /\ pcTest' = "done"
                   /\ testReq' = NoRequest /\ testSent' = 1
                   /\ needsAssociation' = needsAssociation
                   /\ store' = store
        /\ pcTest = "done" =>
               pcTest' = "done" /\ testReq' = NoRequest /\ testSent' = testSent
        /\ \A i \in 1..Len(retrievals) :
               /\ \A reply \in GetLoginsReplies :
                      (reply.status = "http" /\ RetrievalReply(i, reply)) =>
                          /\ retrievals'[i] = Toasting
                          /\ entries' = entries
                          /\ store' = store
               /\ (retrievals[i].pc = "toast" /\ RetrievalToastDone(i)) =>
                      /\ lastDone'.failed /\ lastDone'.toast
                      /\ entries' = <<>>
                      /\ store' = store
               /\ (retrievals[i].pc = "toast"
                       /\ Len(retrievals') >= Len(retrievals)) =>
                      retrievals'[i] = Toasting ]_vars

\* runTest's one request has failed and a getLogins call is in its catch,
\* the stored key still there
C18_Witness ==
    /\ testResult = "error" /\ testSent = 1
    /\ store = <<"b">>
    /\ \E i \in 1..Len(retrievals) : retrievals[i].pc = "toast"

\* C19: getSharedKey and hasSharedKey report no key when the stored value
\* is missing, empty or made of whitespace only; for any other stored value
\* getSharedKey returns it as stored, untrimmed, and hasSharedKey is true.
C19_BlankStoredValueIsAbsent ==
    got.op = "get" =>
        IF got.raw = NULL \/ \A i \in 1..Len(got.raw) : got.raw[i] = SP
        THEN got.key = NULL /\ ~got.has
        ELSE got.key = got.raw /\ got.has

\* " a " was stored and is returned with its spaces; a client has read " "
C19_Witness ==
    /\ got.op = "get"
    /\ got.raw = <<SP, "a", SP>>
    /\ got.key = <<SP, "a", SP>>
    /\ got.has
    /\ \E k \in StorageKeys : localStorage[k] = <<SP>>

\* C20: once checkAssociation and runTest are done and no requestAssociation
\* call is in progress, needsAssociation = false only with a secret in the
\* store.
C20_NotNeededImpliesSecretStored ==
    (StartupDone /\ pcAssoc = "idle" /\ needsAssociation = "false") =>
        hasSharedKey(store)

\* C21: once the association is Associated and needsAssociation is false, a
\* getLogins call for the current search text is dispatched, unless the
\* text is changed first.
C21_AssociatedLeadsToRetrieval ==
    \A q \in Queries :
        (AssocState = "Associated" /\ needsAssociation = "false"
             /\ searchText = q)
            ~> (searchText # q \/ dispatchedSinceUpdate > 0)

\* C22: whenever isLoading is false, no get-logins request of a getLogins
\* call the Command has started is awaiting its response.
C22_NotLoadingNothingInFlight ==
    ~isLoading => GetLoginsInFlight = {}

\* C23: at most one associate request of requestAssociation is awaiting
\* its response; isAssociating is true for as long as a requestAssociation
\* call is under way, so that a further invocation returns at once, and it
\* is false when no call is under way, the last one having succeeded or
\* failed.
C23_OneAssociateAtATime ==
    /\ assocInFlight <= 1
    /\ assocInFlight = 1 <=> pcAssoc = "sent"
    /\ isAssociating <=> pcAssoc # "idle"
    /\ (pcAssoc = "idle" /\ assocResult \in {"ok", "error"}) => ~isAssociating
    /\ isAssociating => ~ENABLED RequestAssociation

\* runTest found the key invalid and cleared it; a requestAssociation call
\* is awaiting its response with the action still on screen
C23_Witness ==
    /\ isAssociating /\ returnsEarly(isAssociating)
    /\ assocInFlight = 1
    /\ needsAssociation = "true" /\ entries = <<>>
    /\ pcTest = "done" /\ testResult = "invalid"

\* the requests that carry a key and await their response
AuthenticatedInFlight ==
    { retrievals[i].req : i \in GetLoginsInFlight }
        \cup (IF pcTest = "sent" THEN {testReq} ELSE {})

\* C24: a test-associate or get-logins request is sent with the value its
\* call has just read from the store, a string with a character that is not
\* whitespace; and no such request awaiting its response has an absent,
\* empty or blank key.
C24_AuthenticatedRequestsCarryKey ==
    [][ /\ (pcTest = "reading" /\ pcTest' = "sent") =>
               /\ testReq'.RequestType = "test-associate"
               /\ testReq'.Key = store /\ store' = store
               /\ Usable(testReq'.Key)
        /\ \A i \in 1..Len(retrievals) :
               (/\ retrievals[i].pc = "reading"
                /\ Len(retrievals') = Len(retrievals)
                /\ retrievals'[i].pc = "sent") =>
                   /\ retrievals'[i].req.RequestType = "get-logins"
                   /\ retrievals'[i].req.Key = store /\ store' = store
                   /\ Usable(retrievals'[i].req.Key)
        /\ \A req \in AuthenticatedInFlight' :
               /\ req.RequestType \in {"test-associate", "get-logins"}
               /\ req.Key # NULL /\ req.Key # <<>>
               /\ \E j \in 1..Len(req.Key) : req.Key[j] # SP ]_vars

\* runTest's request and a get-logins request are both out with the key "b"
C24_Witness ==
    /\ store = <<"b">>
    /\ pcTest = "sent" /\ testReq.Key = <<"b">>
    /\ \E i \in GetLoginsInFlight : retrievals[i].req.Key = <<"b">>

====
